---- MODULE Spec2Model ----
(***************************************************************************)
(* A model of MeshDemoStack (lib/mesh-demo-stack.ts): the constructor's    *)
(* sequence of build steps, the constructs each step adds to the stack,    *)
(* the stack fields each step reads and assigns, and the creation orders   *)
(* that the recorded addDependsOn edges allow for the mesh resources.      *)
(*                                                                         *)
(* A colour is a sequence of one-character strings, so that slice() and    *)
(* startsWith() act on it as they do on a JavaScript string; Str renders   *)
(* it as a string wherever the code interpolates it into a name.           *)
(***************************************************************************)
EXTENDS Integers, Sequences, FiniteSets, TLC

VARIABLES colors, pc, created, assigned, badReads, taskFamily, router,
          error, failedAt, deployed

vars == <<colors, pc, created, assigned, badReads, taskFamily, router,
          error, failedAt, deployed>>

-----------------------------------------------------------------------------
(* Bounds of the model *)

MaxColors == 2

MaxIdLen == 2

Alphabet == {"b", "l"}

(* Program constants *)

APP_PORT == 8080

DEF_TTL == 10

namespace == "mesh.local"

-----------------------------------------------------------------------------
(* Strings *)

RECURSIVE Str(_)
Str(s) == IF s = <<>> THEN "" ELSE Head(s) \o Str(Tail(s))

\* String.prototype.slice(start) for 0 <= start
Slice(s, start) ==
    IF start >= Len(s) THEN <<>> ELSE SubSeq(s, start + 1, Len(s))

\* String.prototype.startsWith(p)
StartsWith(s, p) ==
    /\ Len(p) <= Len(s)
    /\ SubSeq(s, 1, Len(p)) = p

\* the value of colors[0] when colors is empty; `${undefined}` is "undefined"
Undefined == <<"undefined">>

Blue == <<"b", "l", "u", "e">>

Green == <<"g", "r", "e", "e", "n">>

BlueGreen == Blue \o Green

Gateway == <<"g", "a", "t", "e", "w", "a", "y">>

DashVn == <<"-", "v", "n">>

\* the colour identifiers the variant list is drawn from
Ids ==
    UNION {[1..n -> Alphabet] : n \in 1..MaxIdLen} \cup {Blue, Green, BlueGreen}

ColorLists == UNION {[1..n -> Ids] : n \in 0..MaxColors}

\* the default value of the colors field
DefaultColors == <<Blue, Green>>

-----------------------------------------------------------------------------
(* Constructs and statements *)

NoConstruct ==
    [by |-> "", type |-> "", id |-> "", name |-> "", hostname |-> "",
     ttl |-> {}, port |-> 0, mesh |-> "", routerName |-> "",
     targets |-> <<>>, provider |-> "", dependsOn |-> {}]

Construct(by, type, id) ==
    [NoConstruct EXCEPT !.by = by, !.type = type, !.id = id]

\* this.<assigns> = new X(this, id, {... this.<reads> ...})
New(c, reads, assigns) ==
    [op |-> "new", c |-> c, reads |-> reads, assigns |-> assigns,
     key |-> <<>>, val |-> ""]

\* a statement that reads fields and creates no construct of the stack
Use(reads) ==
    [op |-> "use", c |-> NoConstruct, reads |-> reads, assigns |-> "",
     key |-> <<>>, val |-> ""]

\* this.taskFamily.set(key, taskDef.family)
SetFamily(key, val) ==
    [op |-> "set", c |-> NoConstruct, reads |-> {"taskFamily"}, assigns |-> "",
     key |-> key, val |-> val]

\* fields that have an initializer and are assigned before the constructor body
InitializedFields ==
    {"APP_PORT", "DEF_TTL", "IMAGE_TAG", "namespace", "healthCheck",
     "colors", "taskFamily"}

\* fields declared without an initializer
DeclaredFields ==
    {"taskRole", "taskExecutionRole", "vpc", "cluster",
     "internalSecurityGroup", "externalSecurityGroup", "logGroup", "mesh"}

Put(f, k, v) == [x \in DOMAIN f \cup {k} |-> IF x = k THEN v ELSE f[x]]

-----------------------------------------------------------------------------
(* The bodies of the build methods, statement by statement *)

createLogGroupBody ==
    << New(Construct("createLogGroup", "LogGroup", "LogGroup"), {}, "logGroup") >>

createVpcBody ==
    << New(Construct("createVpc", "Vpc", "demoVPC"), {}, "vpc"),
       New(Construct("createVpc", "SecurityGroup", "DemoExternalSG"),
           {"vpc"}, "externalSecurityGroup"),
       Use({"externalSecurityGroup"}),
       New(Construct("createVpc", "SecurityGroup", "DemoInternalSG"),
           {"vpc"}, "internalSecurityGroup"),
       Use({"APP_PORT", "internalSecurityGroup"}) >>

createClusterBody ==
    << New(Construct("createCluster", "Cluster", "DemoCluster"), {"vpc"}, "cluster"),
       Use({"cluster", "namespace"}),
       New(Construct("createCluster", "Role", "DemoTaskRole"), {}, "taskRole"),
       New(Construct("createCluster", "Role", "demoTaskExecutionRole"),
           {}, "taskExecutionRole") >>

createGatewayBody ==
    << New(Construct("createGateway", "FargateTaskDefinition", "GatewayTaskDef-v2"),
           {"taskRole", "taskExecutionRole"}, ""),
       SetFamily(Gateway, "GatewayTaskDef-v2"),
       Use({"IMAGE_TAG", "APP_PORT", "namespace", "logGroup"}),
       Use({"APP_PORT"}),
       New([Construct("createGateway", "FargateService", "GatewayService-v2")
               EXCEPT !.name = "gateway"],
           {"cluster", "internalSecurityGroup"}, ""),
       New(Construct("createGateway", "ApplicationLoadBalancer", "DemoALB"),
           {"vpc", "externalSecurityGroup"}, ""),
       Use({"healthCheck"}),
       New(Construct("createGateway", "CfnOutput", "alburl"), {}, "") >>

\* a bug: the default colour's service is registered without a TTL
cloudMapOptionsNoDefaultTtl(serviceName) ==
    [name |-> serviceName,
     dnsTtl |-> IF serviceName = "colorteller" THEN {} ELSE {DEF_TTL}]

\* cloudMapOptions: {name: serviceName, dnsTtl: this.DEF_TTL}
cloudMapOptions(serviceName) == [name |-> serviceName, dnsTtl |-> {DEF_TTL}]

\* the inner function create(color, serviceName) of createColorTeller
create(color, serviceName) ==
    << New(Construct("createColorTeller", "FargateTaskDefinition",
                     Str(color) \o "_taskdef-v2"),
           {"taskRole", "taskExecutionRole"}, ""),
       SetFamily(color, Str(color) \o "_taskdef-v2"),
       Use({"IMAGE_TAG", "APP_PORT", "logGroup"}),
       Use({"APP_PORT"}),
       New([Construct("createColorTeller", "FargateService",
                      "DemoColorTellerService-" \o Str(color) \o "-v2")
               EXCEPT !.name = cloudMapOptions(serviceName).name,
                      !.ttl = cloudMapOptions(serviceName).dnsTtl],
           {"cluster", "internalSecurityGroup", "DEF_TTL"}, "") >>

\* colors.forEach(color => create(color.slice(1), `colorteller-${color}`))
RECURSIVE createEach(_)
createEach(cs) ==
    IF cs = <<>> THEN <<>>
    ELSE create(Slice(Head(cs), 1), "colorteller-" \o Str(Head(cs)))
             \o createEach(Tail(cs))

createColorTellerBody(cs) ==
    create(IF cs = <<>> THEN Undefined ELSE cs[1], "colorteller") \o createEach(cs)

Mesh ==
    [Construct("createMesh", "CfnMesh", "DemoMesh") EXCEPT !.name = "demomesh"]

createMeshBody == << New(Mesh, {}, "mesh") >>

\* one iteration of the forEach of createVirtualNodes
VirtualNode(color, cs) ==
    LET nameChars == color \o DashVn
        name == Str(nameChars)
    IN  [Construct("createVirtualNodes", "CfnVirtualNode", "Demo-" \o name)
            EXCEPT !.mesh = Mesh.name,
                   !.name = name,
                   !.port = APP_PORT,
                   !.hostname = IF StartsWith(nameChars, cs[1])
                                THEN "colorteller" ELSE name,
                   !.dependsOn = {Mesh.id}]

createVirtualNodesBody(cs) ==
    [i \in 1..Len(cs) |->
        New(VirtualNode(cs[i], cs), {"colors", "mesh", "APP_PORT"}, "")]

VirtualRouter ==
    [Construct("createVirtualRouter", "CfnVirtualRouter",
               "DemoColorTellerVirtualRouter")
        EXCEPT !.name = "colorteller-vr",
               !.mesh = Mesh.name,
               !.port = APP_PORT,
               !.dependsOn = {Mesh.id}]

createVirtualRouterBody == << New(VirtualRouter, {"mesh", "APP_PORT"}, "") >>

Route(r) ==
    [Construct("createRoute", "CfnRoute", "DemoColorTellerRoute")
        EXCEPT !.name = "colorteller-route",
               !.mesh = Mesh.name,
               !.routerName = r.name,
               !.targets = << [virtualNode |-> "blue-vn", weight |-> 1] >>,
               !.dependsOn = {r.id}]

createRouteBody(r) == << New(Route(r), {"mesh"}, "") >>

\* a bug: svc.addDependsOn(router) is left out
VirtualServiceWithoutDependsOn(r) ==
    [Construct("createVirtualService", "CfnVirtualService",
               "ColorTellerVirtualService")
        EXCEPT !.name = "colorteller." \o namespace,
               !.mesh = Mesh.name,
               !.provider = "colorteller-vr"]

VirtualService(r) ==
    [Construct("createVirtualService", "CfnVirtualService",
               "ColorTellerVirtualService")
        EXCEPT !.name = "colorteller." \o namespace,
               !.mesh = Mesh.name,
               !.provider = "colorteller-vr",
               !.dependsOn = {r.id}]

createVirtualServiceBody(r) == << New(VirtualService(r), {"namespace", "mesh"}, "") >>

-----------------------------------------------------------------------------
(* The order of the calls *)

\* a bug: the gateway is built before the cluster and the task roles
ConstructorStepsGatewayFirst ==
    << "createLogGroup", "createVpc", "createGateway", "createCluster",
       "createColorTeller", "createMesh" >>

\* the calls of the constructor, in order
ConstructorSteps ==
    << "createLogGroup", "createVpc", "createCluster", "createGateway",
       "createColorTeller", "createMesh" >>

\* the calls createMesh makes after it has created the mesh, in order
MeshSteps ==
    << "createVirtualNodes", "createVirtualRouter", "createRoute",
       "createVirtualService" >>

Steps == ConstructorSteps \o MeshSteps

StepIndex(name) == CHOOSE i \in 1..Len(Steps) : Steps[i] = name

NextStep(name) ==
    IF StepIndex(name) = Len(Steps) THEN "done" ELSE Steps[StepIndex(name) + 1]

\* the call `name` has returned
Past(name) ==
    \/ pc = "done"
    \/ /\ pc \notin {"done", "failed"}
       /\ StepIndex(pc) > StepIndex(name)

-----------------------------------------------------------------------------
(* Running a method body *)

News(stmts) == SelectSeq(stmts, LAMBDA s : s.op = "new")

Constructs(stmts) == [i \in 1..Len(News(stmts)) |-> News(stmts)[i].c]

\* new X(this, id, ...) with an id a construct of the stack already has
IdInUse(cons, id) == \E i \in 1..Len(cons) : cons[i].id = id

\* a bug: the exception of the failing `new` is caught and the body goes on
RECURSIVE ExecCatching(_, _, _)
ExecCatching(stmts, st, failAt) ==
    IF stmts = <<>> THEN st
    ELSE LET s == Head(stmts)
         IN  CASE s.op = "new" /\ (failAt = 1 \/ IdInUse(st.created, s.c.id)) ->
                    ExecCatching(Tail(stmts), [st EXCEPT !.failed = TRUE], 0)
               [] s.op = "new" ->
                    ExecCatching(Tail(stmts),
                                 [st EXCEPT
                                     !.created = Append(@, s.c),
                                     !.assigned = IF s.assigns = "" THEN @
                                                  ELSE @ \cup {s.assigns}],
                                 IF failAt = 0 THEN 0 ELSE failAt - 1)
               [] s.op = "set" ->
                    ExecCatching(Tail(stmts),
                                 [st EXCEPT !.taskFamily = Put(@, s.key, s.val)],
                                 failAt)
               [] OTHER -> ExecCatching(Tail(stmts), st, failAt)

\* Run the statements in order from state st. A `new` throws when it is the
\* failAt-th `new` of the body (failAt = k > 0: the construct library rejects
\* it) and when its id is already the id of a construct of the stack (ids are
\* unique within a scope). Nothing catches the exception, so the rest of the
\* body is skipped.
RECURSIVE Exec(_, _, _)
Exec(stmts, st, failAt) ==
    IF stmts = <<>> THEN st
    ELSE LET s == Head(stmts)
             st1 == [st EXCEPT !.badReads = @ \cup (s.reads \ st.assigned)]
         IN  CASE s.op = "new" ->
                    IF failAt = 1 \/ IdInUse(st.created, s.c.id)
                    THEN [st1 EXCEPT !.failed = TRUE]
                    ELSE Exec(Tail(stmts),
                              [st1 EXCEPT
                                  !.created = Append(@, s.c),
                                  !.assigned = IF s.assigns = "" THEN @
                                               ELSE @ \cup {s.assigns}],
                              IF failAt = 0 THEN 0 ELSE failAt - 1)
               [] s.op = "set" ->
                    Exec(Tail(stmts),
                         [st1 EXCEPT !.taskFamily = Put(@, s.key, s.val)],
                         failAt)
               [] OTHER -> Exec(Tail(stmts), st1, failAt)

\* the body of each call; r is createMesh's local variable router
BodyOf(name, cs, r) ==
    CASE name = "createLogGroup" -> createLogGroupBody
      [] name = "createVpc" -> createVpcBody
      [] name = "createCluster" -> createClusterBody
      [] name = "createGateway" -> createGatewayBody
      [] name = "createColorTeller" -> createColorTellerBody(cs)
      [] name = "createMesh" -> createMeshBody
      [] name = "createVirtualNodes" -> createVirtualNodesBody(cs)
      [] name = "createVirtualRouter" -> createVirtualRouterBody
      [] name = "createRoute" -> createRouteBody(r)
      [] name = "createVirtualService" -> createVirtualServiceBody(r)

\* the constructs the constructor creates, in order, when nothing throws
RECURSIVE PlanFrom(_, _)
PlanFrom(i, cs) ==
    IF i > Len(Steps) THEN <<>>
    ELSE Constructs(BodyOf(Steps[i], cs, VirtualRouter)) \o PlanFrom(i + 1, cs)

Plan(cs) == PlanFrom(1, cs)

Current ==
    [created |-> created, assigned |-> assigned, badReads |-> badReads,
     taskFamily |-> taskFamily, failed |-> FALSE]

\* the error the caller of the constructor sees when a `new` has thrown:
\* the constructor has no try/catch, so it is the exception as thrown
Thrown == [cause |-> "exception"]

NoError == [cause |-> "none"]

\* One call of the constructor's sequence: the method `name`, whose body is `body`
Step(name, body) ==
    /\ pc = name
    /\ \E failAt \in 0..Len(News(body)) :
          LET r == Exec(body, Current, failAt)
          IN  /\ created' = r.created
              /\ assigned' = r.assigned
              /\ badReads' = r.badReads
              /\ taskFamily' = r.taskFamily
              /\ pc' = IF r.failed THEN "failed" ELSE NextStep(name)
              /\ failedAt' = IF r.failed THEN Len(r.created) + 1 ELSE 0
              /\ error' = IF r.failed THEN Thrown ELSE error
    /\ UNCHANGED <<colors, deployed>>

-----------------------------------------------------------------------------
(* Actions *)

Init ==
    /\ colors \in ColorLists
    /\ pc = Steps[1]
    /\ created = <<>>
    /\ assigned = InitializedFields
    /\ badReads = {}
    /\ taskFamily = <<>>
    /\ router = NoConstruct
    /\ error = NoError
    /\ failedAt = 0
    /\ deployed = {}

createLogGroup ==
    /\ Step("createLogGroup", BodyOf("createLogGroup", colors, router))
    /\ UNCHANGED router

createVpc ==
    /\ Step("createVpc", BodyOf("createVpc", colors, router))
    /\ UNCHANGED router

createCluster ==
    /\ Step("createCluster", BodyOf("createCluster", colors, router))
    /\ UNCHANGED router

createGateway ==
    /\ Step("createGateway", BodyOf("createGateway", colors, router))
    /\ UNCHANGED router

createColorTeller ==
    /\ Step("createColorTeller", BodyOf("createColorTeller", colors, router))
    /\ UNCHANGED router

createMesh ==
    /\ Step("createMesh", BodyOf("createMesh", colors, router))
    /\ UNCHANGED router

createVirtualNodes ==
    /\ Step("createVirtualNodes", BodyOf("createVirtualNodes", colors, router))
    /\ UNCHANGED router

\* let router = this.createVirtualRouter()
createVirtualRouter ==
    /\ Step("createVirtualRouter", BodyOf("createVirtualRouter", colors, router))
    /\ router' = IF pc' = "failed" THEN router ELSE created'[Len(created')]

createRoute ==
    /\ Step("createRoute", BodyOf("createRoute", colors, router))
    /\ UNCHANGED router

createVirtualService ==
    /\ Step("createVirtualService", BodyOf("createVirtualService", colors, router))
    /\ UNCHANGED router

\* the mesh resources of the finished stack
MeshTypes ==
    {"CfnMesh", "CfnVirtualNode", "CfnVirtualRouter", "CfnRoute", "CfnVirtualService"}

MeshResources == {created[i] : i \in {j \in 1..Len(created) : created[j].type \in MeshTypes}}

\* The deployment creates one more mesh resource of the finished stack: any
\* resource all of whose addDependsOn targets have been created.
Deploy ==
    /\ pc = "done"
    /\ \E c \in MeshResources :
          /\ c.id \notin deployed
          /\ c.dependsOn \subseteq deployed
          /\ deployed' = deployed \cup {c.id}
    /\ UNCHANGED <<colors, pc, created, assigned, badReads, taskFamily, router,
                   error, failedAt>>

Next ==
    \/ createLogGroup
    \/ createVpc
    \/ createCluster
    \/ createGateway
    \/ createColorTeller
    \/ createMesh
    \/ createVirtualNodes
    \/ createVirtualRouter
    \/ createRoute
    \/ createVirtualService
    \/ Deploy

Spec == Init /\ [][Next]_vars

-----------------------------------------------------------------------------
(* What the claims speak of *)

\* the backend services createColorTeller has created, in order
BackendServices ==
    SelectSeq(created,
              LAMBDA c : c.by = "createColorTeller" /\ c.type = "FargateService")

\* the constructs createColorTeller has created, in order
ColorTellerConstructs == SelectSeq(created, LAMBDA c : c.by = "createColorTeller")

VirtualNodes == SelectSeq(created, LAMBDA c : c.type = "CfnVirtualNode")

Routes == SelectSeq(created, LAMBDA c : c.type = "CfnRoute")

Distinct(seq) == \A i, j \in 1..Len(seq) : i # j => seq[i] # seq[j]

NodeName(color) == Str(color) \o "-vn"

-----------------------------------------------------------------------------
(* C1: for every non-empty variant list, once createVirtualNodes has       *)
(* returned, the node of the variant at index 0 has hostname "colorteller" *)
(* and the node of every variant at index > 0 has its own node name        *)
(* "<variant>-vn" as hostname.                                             *)
C1_HostnameNaming ==
    (colors # <<>> /\ Past("createVirtualNodes")) =>
        /\ Len(VirtualNodes) = Len(colors)
        /\ \A i \in 1..Len(colors) :
              /\ VirtualNodes[i].name = NodeName(colors[i])
              /\ VirtualNodes[i].hostname =
                    IF i = 1 THEN "colorteller" ELSE NodeName(colors[i])

(* C2: for every variant list, once createRoute has returned, every        *)
(* virtual node named by a weighted target of the route is the name of a   *)
(* virtual node createVirtualNodes built for that list.                    *)
C2_NoDanglingTarget ==
    Past("createRoute") =>
        \A r \in 1..Len(Routes) :
            \A t \in 1..Len(Routes[r].targets) :
                \E n \in 1..Len(VirtualNodes) :
                    VirtualNodes[n].name = Routes[r].targets[t].virtualNode

(* C3: for every non-empty variant list, the route has exactly one         *)
(* weighted target, of weight 1, and it is the node of the variant at      *)
(* index 0, "<variants[0]>-vn".                                            *)
C3_RouteTargetsFirstVariant ==
    (colors # <<>> /\ Past("createRoute")) =>
        /\ Len(Routes) = 1
        /\ Routes[1].targets =
              << [virtualNode |-> NodeName(colors[1]), weight |-> 1] >>

(* C4: for every non-empty variant list, createColorTeller deploys exactly *)
(* one backend service per variant: "colorteller" for the variant at       *)
(* index 0 and "colorteller-<variant>" for each variant at index > 0.      *)
C4_OneServicePerVariant ==
    (colors # <<>> /\ Past("createColorTeller")) =>
        /\ Len(BackendServices) = Len(colors)
        /\ \A i \in 1..Len(colors) :
              i <= Len(BackendServices) =>
                  BackendServices[i].name =
                      IF i = 1 THEN "colorteller"
                      ELSE "colorteller-" \o Str(colors[i])

(* C5, as claimed: in every creation order that respects the depends-on    *)
(* edges the mesh is created first and the virtual service last, so never  *)
(* before the route.                                                       *)
C5_MeshFirstServiceLast ==
    /\ deployed # {} => Mesh.id \in deployed
    /\ VirtualService(router).id \in deployed =>
          \A c \in MeshResources : c.id \in deployed

(* C5, as amended: in every creation order that respects the depends-on    *)
(* edges the mesh is created first, and the virtual router is created      *)
(* before the route and before the virtual service.                        *)
C5_MeshFirstRouterBeforeUsers ==
    /\ deployed # {} => Mesh.id \in deployed
    /\ Route(router).id \in deployed => VirtualRouter.id \in deployed
    /\ VirtualService(router).id \in deployed => VirtualRouter.id \in deployed

\* the virtual service has been created while the route and a node have not
C5_ServiceBeforeRoute ==
    /\ Len(colors) = 2
    /\ VirtualService(router).id \in deployed
    /\ Route(router).id \notin deployed
    /\ \E c \in MeshResources : c.type = "CfnVirtualNode" /\ c.id \notin deployed

(* C6: when the variant list is empty the assembly fails with an           *)
(* empty-topology error and no resource at all is created.                 *)
C6_EmptyListCreatesNothing ==
    colors = <<>> =>
        /\ created = <<>>
        /\ deployed = {}
        /\ pc \in {Steps[1], "failed"}
        /\ pc = "failed" => error = [cause |-> "EmptyTopologyError"]

C8_DefaultServiceWithoutTtl ==
    (colors # <<>> /\ Past("createColorTeller")) =>
        \A i \in 1..Len(BackendServices) :
            BackendServices[i].ttl =
                IF BackendServices[i].name = "colorteller" THEN {} ELSE {DEF_TTL}

(* C8, as amended: every backend service createColorTeller creates, the    *)
(* "colorteller" service of the variant at index 0 included, is registered *)
(* with the explicit DNS TTL of 10 seconds.                                *)
C8_EveryServiceHasDefTtl ==
    /\ \A i \in 1..Len(BackendServices) : BackendServices[i].ttl = {DEF_TTL}
    /\ (colors # <<>> /\ Past("createColorTeller")) =>
          /\ BackendServices # <<>>
          /\ BackendServices[1].name = "colorteller"
          /\ BackendServices[1].ttl = {10}

\* createColorTeller has returned for the default colours
C8_DefaultColorsServed ==
    /\ colors = DefaultColors
    /\ Past("createColorTeller")
    /\ \E i \in 1..Len(BackendServices) :
          BackendServices[i].name = "colorteller-green"

(* C9: every step of the constructor's sequence reads a stack field only   *)
(* after an earlier statement has assigned it.                             *)
C9_NoReadBeforeAssignment == badReads = {}

\* the constructor has returned with every declared field assigned
C9_AllFieldsAssigned ==
    /\ pc = "done"
    /\ Len(colors) = 2
    /\ DeclaredFields \subseteq assigned
    /\ Len(created) = Len(Plan(colors))

(* C10: for every non-empty list of pairwise distinct variants, the        *)
(* constructs of createColorTeller have pairwise distinct construct ids,   *)
(* the services pairwise distinct Cloud Map names, and taskFamily has an   *)
(* entry keyed by each variant.                                            *)
C10_DistinctIdsAndFamilies ==
    (colors # <<>> /\ Distinct(colors) /\ Past("createColorTeller")) =>
        /\ Distinct([i \in 1..Len(ColorTellerConstructs) |->
                        ColorTellerConstructs[i].id])
        /\ Distinct([i \in 1..Len(BackendServices) |-> BackendServices[i].name])
        /\ \A i \in 1..Len(colors) : colors[i] \in DOMAIN taskFamily

====
